---- MODULE Spec2Model ----
(***************************************************************************)
(* Model of scripts/validate-pipelines.py: the PipelineValidator harness   *)
(* (run_pipeline, validate_outputs, validate_json_output, test_pipeline,   *)
(* run_test_suite, generate_report) and main().                            *)
(*                                                                         *)
(* Python values are modelled as follows.                                  *)
(*   dict with optional keys  -> record; `"k" in d` is "k" \in DOMAIN d    *)
(*   insertion-ordered dict   -> sequence of <<key, value>> pairs with     *)
(*                               distinct keys                             *)
(*   list                     -> sequence                                  *)
(*   a value that may be unset-> <<>> (unset) or <<v>> (set)               *)
(* A file is a record [kind, keys]: kind is "absent", "malformed" (exists, *)
(* json.load raises JSONDecodeError) or the Python type name of the parsed *)
(* value; keys holds the keys of a dict, the items of a list or the        *)
(* characters of a str.  Field names are single characters, so the         *)
(* substring test `field in some_str` is membership among the characters.  *)
(* A filesystem is a function from full paths <<directory, relative path>> *)
(* to files; the harness's own current directory is ".".                   *)
(***************************************************************************)
EXTENDS Integers, Sequences, FiniteSets, TLC

VARIABLES
    pc,            \* position of main(): start, setup, tests, report, exit, done
    config,        \* <<>> or <<doc>>: the mapping yaml.safe_load returned
    cfg_kind,      \* what the configuration path held: none yet, missing, unparsable, notmapping, loaded
    setup_i,       \* number of setup commands already handed to os.system
    all_results,   \* run_test_suite's local list all_results
    test_results,  \* self.test_results
    summary,       \* <<>> or <<[total, passed, failed]>>: the printed Test Summary
    success,       \* <<>> or <<b>>: the value run_test_suite returned
    report,        \* <<>> or <<r>>: the document generate_report wrote
    exit_status,   \* <<>> or <<n>>: the exit status of the process
    crashed,       \* an exception escaped main()
    log,           \* history: every external call the harness made, in order
    call,          \* <<>> or the arguments of a method called on its own
    ret            \* <<>> or <<v>>: what that call returned

vars == <<pc, config, cfg_kind, setup_i, all_results, test_results, summary,
          success, report, exit_status, crashed, log, call, ret>>

\* The variables of a suite run, and those of a single method call.
suite_vars == <<config, cfg_kind, setup_i, all_results, test_results, summary,
                success, report, exit_status, crashed, log>>
call_vars == <<call, ret>>

-----------------------------------------------------------------------------
(* Bounds and program constants *)

MaxSetup == 2          \* longest setup command list in a configuration
MaxElapsed == 2        \* longest run, in seconds, of a child that ends by itself
MaxOutputs == 2        \* longest expected_outputs list handed to validate_outputs alone
MaxFields == 3         \* longest required_fields list handed to validate_json_output alone

TimeoutSeconds == 60   \* timeout=60 handed to subprocess.run
SentinelExit == -1     \* exit_code of a timeout or launch failure

Range(s) == {s[i] : i \in DOMAIN s}

-----------------------------------------------------------------------------
(* Files and filesystems *)

NoFile == [kind |-> "absent", keys |-> <<>>]
Malformed == [kind |-> "malformed", keys |-> <<>>]
DictFile(ks) == [kind |-> "dict", keys |-> ks]
ListFile(items) == [kind |-> "list", keys |-> items]
StrFile(chars) == [kind |-> "str", keys |-> chars]
IntFile == [kind |-> "int", keys |-> <<>>]
NoneFile == [kind |-> "NoneType", keys |-> <<>>]
BoolFile == [kind |-> "bool", keys |-> <<>>]
FloatFile == [kind |-> "float", keys |-> <<>>]

\* Variant: the path is resolved against the current directory.
FullPathInCwd(working_dir, path) == <<".", path>>

\* Path(working_dir) / output_path
FullPath(working_dir, path) == <<working_dir, path>>

\* Variant: the existence test is left out.
ExistsAlways(fs, fp) == TRUE

\* Path(p).exists()
Exists(fs, fp) == fs[fp].kind # "absent"

-----------------------------------------------------------------------------
(* run_pipeline: proc is what subprocess.run did *)

TimeoutMessage == "Pipeline execution timed out after 60 seconds"

\* Variant: the exit status is not looked at, any child that ends passes.
run_pipeline_any_exit(proc) ==
    CASE proc.kind = "exited" ->
            [success |-> TRUE,
             stdout |-> proc.stdout,
             stderr |-> proc.stderr,
             duration |-> proc.elapsed,
             exit_code |-> proc.returncode]
      [] proc.kind = "timeout" ->
            [success |-> FALSE,
             stdout |-> "",
             stderr |-> TimeoutMessage,
             duration |-> TimeoutSeconds,
             exit_code |-> SentinelExit]
      [] OTHER ->
            [success |-> FALSE,
             stdout |-> "",
             stderr |-> proc.message,
             duration |-> proc.elapsed,
             exit_code |-> SentinelExit]

run_pipeline(proc) ==
    CASE proc.kind = "exited" ->
            [success |-> proc.returncode = 0,
             stdout |-> proc.stdout,
             stderr |-> proc.stderr,
             duration |-> proc.elapsed,
             exit_code |-> proc.returncode]
      [] proc.kind = "timeout" ->
            [success |-> FALSE,
             stdout |-> "",
             stderr |-> TimeoutMessage,
             duration |-> TimeoutSeconds,
             exit_code |-> SentinelExit]
      [] OTHER ->
            [success |-> FALSE,
             stdout |-> "",
             stderr |-> proc.message,
             duration |-> proc.elapsed,
             exit_code |-> SentinelExit]

-----------------------------------------------------------------------------
(* validate_outputs *)

RECURSIVE OutputsLoop(_, _, _, _, _)
OutputsLoop(expected_outputs, working_dir, fs, i, results) ==
    IF i > Len(expected_outputs) THEN results
    ELSE LET output_path == expected_outputs[i]
             full_path == FullPath(working_dir, output_path)
         IN  IF Exists(fs, full_path)
             THEN OutputsLoop(expected_outputs, working_dir, fs, i + 1,
                     [results EXCEPT !.files_created = Append(@, output_path)])
             ELSE OutputsLoop(expected_outputs, working_dir, fs, i + 1,
                     [results EXCEPT !.files_missing = Append(@, output_path)])

validate_outputs(expected_outputs, working_dir, fs) ==
    LET results == OutputsLoop(expected_outputs, working_dir, fs, 1,
                      [files_created |-> <<>>, files_missing |-> <<>>,
                       total_expected |-> Len(expected_outputs)])
    IN  results @@ [success |-> Len(results.files_missing) = 0,
                    created_count |-> Len(results.files_created),
                    missing_count |-> Len(results.files_missing)]

-----------------------------------------------------------------------------
(* validate_json_output *)

\* `field in data` is defined for a dict (keys), a list (items) and a str
\* (substring); for int, float, bool and None it raises TypeError.
Iterable(data) == data.kind \in {"dict", "list", "str"}

FieldIn(field, data) == field \in Range(data.keys)

\* Variant: the loop stops at the first missing field.
FieldsLoopFirstOnly(required_fields, data, i, missing_fields) ==
    LET absent == SelectSeq(required_fields, LAMBDA field : ~FieldIn(field, data))
    IN  IF absent = <<>> THEN <<>> ELSE <<absent[1]>>

RECURSIVE FieldsLoop(_, _, _, _)
FieldsLoop(required_fields, data, i, missing_fields) ==
    IF i > Len(required_fields) THEN missing_fields
    ELSE IF ~FieldIn(required_fields[i], data)
         THEN FieldsLoop(required_fields, data, i + 1,
                         Append(missing_fields, required_fields[i]))
         ELSE FieldsLoop(required_fields, data, i + 1, missing_fields)

TypeError == [raised |-> "TypeError"]

Raised(r) == "raised" \in DOMAIN r

\* Variant: the path is resolved against the directory "out", as it would
\* be were a working_dir of "out" handed on to the JSON check.
validate_json_output_in_out(json_path, required_fields, fs) ==
    LET fp == FullPath("out", json_path)
        data == fs[fp]
    IN  IF ~Exists(fs, fp)
        THEN [success |-> FALSE, error |-> <<"JSON file not found: ", json_path>>]
        ELSE IF data.kind = "malformed"
        THEN [success |-> FALSE, error |-> <<"Invalid JSON: ", json_path>>]
        ELSE IF Len(required_fields) > 0 /\ ~Iterable(data)
        THEN TypeError
        ELSE LET missing_fields == FieldsLoop(required_fields, data, 1, <<>>)
             IN  [success |-> Len(missing_fields) = 0,
                  missing_fields |-> missing_fields,
                  data_keys |-> IF data.kind = "dict" THEN data.keys ELSE <<>>,
                  data_type |-> data.kind]

validate_json_output(json_path, required_fields, fs) ==
    LET fp == FullPath(".", json_path)
        data == fs[fp]
    IN  IF ~Exists(fs, fp)
        THEN [success |-> FALSE, error |-> <<"JSON file not found: ", json_path>>]
        ELSE IF data.kind = "malformed"
        THEN [success |-> FALSE, error |-> <<"Invalid JSON: ", json_path>>]
        ELSE IF Len(required_fields) > 0 /\ ~Iterable(data)
        THEN TypeError
        ELSE LET missing_fields == FieldsLoop(required_fields, data, 1, <<>>)
             IN  [success |-> Len(missing_fields) = 0,
                  missing_fields |-> missing_fields,
                  data_keys |-> IF data.kind = "dict" THEN data.keys ELSE <<>>,
                  data_type |-> data.kind]

-----------------------------------------------------------------------------
(* test_pipeline *)

\* config.get("working_dir", ".")
WorkingDir(cfg) == IF "working_dir" \in DOMAIN cfg THEN cfg.working_dir ELSE "."

Event(op, case, arg, ok) == [op |-> op, case |-> case, arg |-> arg, ok |-> ok]

\* for json_file, required_fields in config["json_validations"].items(): ...
\* acc.validations is test_result["json_validations"], acc.calls the calls
\* made so far; the loop ends when a call raises.
RECURSIVE JsonLoop(_, _, _, _)
JsonLoop(items, fs, i, acc) ==
    IF i > Len(items) \/ acc.raised THEN acc
    ELSE LET json_file == items[i][1]
             required_fields == items[i][2]
             json_validation == validate_json_output(json_file, required_fields, fs)
         IN  IF Raised(json_validation)
             THEN JsonLoop(items, fs, i + 1,
                     [acc EXCEPT !.raised = TRUE,
                                 !.calls = Append(@, <<json_file, FALSE>>)])
             ELSE JsonLoop(items, fs, i + 1,
                     [acc EXCEPT !.validations = Append(@, <<json_file, json_validation>>),
                                 !.calls = Append(@, <<json_file, json_validation.success>>)])

\* Variant: the validators run whatever the execution did.
ExecutionOkAlways(result) == TRUE

\* if result["success"]: the validators run only in this branch
ExecutionOk(result) == result.success

\* Returns [raised, test_result, events]: raised when an exception escapes
\* (test_result is then never returned), events the external calls made.
test_pipeline(pipeline_name, cfg, proc, fs) ==
    LET result == run_pipeline(proc)
        test_result == [name |-> pipeline_name,
                        pipeline |-> cfg.pipeline,
                        execution |-> result]
        ran == <<Event("run_pipeline", pipeline_name, cfg.pipeline, result.success)>>
        check_outputs == ExecutionOk(result) /\ "expected_outputs" \in DOMAIN cfg
        check_json == ExecutionOk(result) /\ "json_validations" \in DOMAIN cfg
        output_validation == validate_outputs(cfg.expected_outputs, WorkingDir(cfg), fs)
        loop == JsonLoop(cfg.json_validations, fs, 1,
                         [raised |-> FALSE, validations |-> <<>>, calls |-> <<>>])
        with_outputs == IF check_outputs
                        THEN test_result @@ [output_validation |-> output_validation]
                        ELSE test_result
        with_json == IF check_json
                     THEN with_outputs @@ [json_validations |-> loop.validations]
                     ELSE with_outputs
        outputs_events == IF check_outputs
                          THEN <<Event("validate_outputs", pipeline_name,
                                       WorkingDir(cfg), output_validation.success)>>
                          ELSE <<>>
        json_events == IF check_json
                       THEN [k \in DOMAIN loop.calls |->
                               Event("validate_json_output", pipeline_name,
                                     loop.calls[k][1], loop.calls[k][2])]
                       ELSE <<>>
    IN  [raised |-> check_json /\ loop.raised,
         test_result |-> with_json,
         events |-> ran \o outputs_events \o json_events]

-----------------------------------------------------------------------------
(* Tallies *)

\* Variant: a case passes only when its artifact check succeeded too.
PassedValidated(results) ==
    Cardinality({i \in DOMAIN results :
        /\ results[i].execution.success
        /\ "output_validation" \in DOMAIN results[i] => results[i].output_validation.success})

\* sum(1 for r in results if r["execution"]["success"])
Passed(results) == Cardinality({i \in DOMAIN results : results[i].execution.success})

\* sum(1 for r in results if not r["execution"]["success"])
NotPassed(results) == Cardinality({i \in DOMAIN results : ~results[i].execution.success})

\* sys.exit(0 if success else 1)
ExitCode(ok) == IF ok THEN 0 ELSE 1

-----------------------------------------------------------------------------
(* Inputs of a suite run: configuration documents, process outcomes, files *)

CaseNames == {"b", "a"}

PipelineOf(name) == IF name = "b" THEN "pipelines/b.yaml" ELSE "pipelines/a.yaml"

\* The case objects a configuration may declare under one name.
CaseSpecs(name) ==
    LET base == [pipeline |-> PipelineOf(name)]
    IN  { base,
          base @@ [working_dir |-> "out", expected_outputs |-> <<"r.json">>],
          base @@ [expected_outputs |-> <<>>, json_validations |-> <<>>],
          base @@ [json_validations |-> << <<"r.json", <<"a">>>>, <<"s.json", <<>>>> >>],
          base @@ [working_dir |-> "out", expected_outputs |-> <<"r.json">>,
                   json_validations |-> << <<"r.json", <<"a">>>> >>],
          base @@ [expected_outputs |-> <<"r.json", "s.json">>] }

\* The tests mapping, in insertion order, keys distinct.
TestsChoices ==
    {<<>>}
    \cup UNION {{<< <<n, c>> >> : c \in CaseSpecs(n)} : n \in CaseNames}
    \cup UNION {{<< <<n1, c1>>, <<n2, c2>> >> : c1 \in CaseSpecs(n1), c2 \in CaseSpecs(n2)} :
                  <<n1, n2>> \in {q \in CaseNames \X CaseNames : q[1] # q[2]}}

SetupPool == <<"mkdir -p out", "npm run build", "node gen.js", "node seed.js">>

SetupChoices == {SubSeq(SetupPool, 1, n) : n \in 0..MaxSetup}

EmptyMapping == [k \in {} |-> <<>>]

ConfigDocs ==
    {s @@ t : s \in {EmptyMapping} \cup {[setup |-> c] : c \in SetupChoices},
              t \in {EmptyMapping} \cup {[tests |-> c] : c \in TestsChoices}}

\* Variant: the cases taken in name order, as sorted(tests.items()) would.
TestItemsSorted(doc) ==
    IF "tests" \in DOMAIN doc
    THEN SelectSeq(doc.tests, LAMBDA item : item[1] = "a")
            \o SelectSeq(doc.tests, LAMBDA item : item[1] # "a")
    ELSE <<>>

\* config.get("tests", {}).items()
TestItems(doc) == IF "tests" \in DOMAIN doc THEN doc.tests ELSE <<>>

\* What subprocess.run did: the child exited, the timeout expired, or the
\* call raised another exception (the child could not be launched).
Exited(rc, out, err, t) ==
    [kind |-> "exited", returncode |-> rc, stdout |-> out, stderr |-> err,
     elapsed |-> t, message |-> ""]
TimedOut(out, err) ==
    [kind |-> "timeout", returncode |-> 0, stdout |-> out, stderr |-> err,
     elapsed |-> TimeoutSeconds, message |-> ""]
LaunchError(msg, t) ==
    [kind |-> "oserror", returncode |-> 0, stdout |-> "", stderr |-> "",
     elapsed |-> t, message |-> msg]

SuiteProcs ==
    { Exited(0, "done", "", 2), Exited(1, "", "pipeline failed", 2),
      TimedOut("partial", ""),
      LaunchError("[Errno 2] No such file or directory: 'node'", 0) }

SuiteFiles == {NoFile, Malformed, DictFile(<<"a">>), DictFile(<<"b">>), IntFile}

\* The full paths a case's validators look at.
Reads(cfg) ==
    (IF "expected_outputs" \in DOMAIN cfg
     THEN {FullPath(WorkingDir(cfg), p) : p \in Range(cfg.expected_outputs)} ELSE {})
    \cup
    (IF "json_validations" \in DOMAIN cfg
     THEN {FullPath(".", cfg.json_validations[k][1]) : k \in DOMAIN cfg.json_validations}
     ELSE {})

\* The filesystem states the tool may leave behind, restricted to the paths
\* the case reads; nothing is read after a failed execution.
FsChoices(cfg, proc) ==
    IF run_pipeline(proc).success THEN [Reads(cfg) -> SuiteFiles]
    ELSE {[fp \in Reads(cfg) |-> NoFile]}

-----------------------------------------------------------------------------
(* main() and run_test_suite *)

Init ==
    /\ pc = "start"
    /\ config = <<>>
    /\ cfg_kind = "none"
    /\ setup_i = 0
    /\ all_results = <<>>
    /\ test_results = <<>>
    /\ summary = <<>>
    /\ success = <<>>
    /\ report = <<>>
    /\ exit_status = <<>>
    /\ crashed = FALSE
    /\ log = <<>>
    /\ call = <<>>
    /\ ret = <<>>

\* An exception escapes main(): traceback, nothing further runs, and the
\* interpreter ends the process with status 1.
Crash ==
    /\ pc' = "done"
    /\ crashed' = TRUE
    /\ exit_status' = <<1>>

\* Variant: a missing configuration is reported as an empty, passing suite.
ConfigNotFoundPasses ==
    /\ pc = "start"
    /\ cfg_kind' = "missing"
    /\ success' = <<TRUE>>
    /\ pc' = "report"
    /\ UNCHANGED <<config, setup_i, all_results, test_results, summary, report,
                   exit_status, crashed, log>>
    /\ UNCHANGED call_vars

\* if not Path(config_path).exists(): return False
ConfigNotFound ==
    /\ pc = "start"
    /\ cfg_kind' = "missing"
    /\ success' = <<FALSE>>
    /\ pc' = "report"
    /\ UNCHANGED <<config, setup_i, all_results, test_results, summary, report,
                   exit_status, crashed, log>>
    /\ UNCHANGED call_vars

\* yaml.safe_load raises YAMLError
ConfigUnparsable ==
    /\ pc = "start"
    /\ cfg_kind' = "unparsable"
    /\ Crash
    /\ UNCHANGED <<config, setup_i, all_results, test_results, summary, success,
                   report, log>>
    /\ UNCHANGED call_vars

\* yaml.safe_load returns None (empty document): `"setup" in config` raises
ConfigNotMapping ==
    /\ pc = "start"
    /\ cfg_kind' = "notmapping"
    /\ Crash
    /\ UNCHANGED <<config, setup_i, all_results, test_results, summary, success,
                   report, log>>
    /\ UNCHANGED call_vars

ConfigLoaded ==
    /\ pc = "start"
    /\ \E doc \in ConfigDocs : config' = <<doc>>
    /\ cfg_kind' = "loaded"
    /\ pc' = "setup"
    /\ UNCHANGED <<setup_i, all_results, test_results, summary, success, report,
                   exit_status, crashed, log>>
    /\ UNCHANGED call_vars

SetupCommands(doc) == IF "setup" \in DOMAIN doc THEN doc.setup ELSE <<>>

\* Variant: a setup command that exits non-zero ends the setup loop.
RunSetupCommandChecked ==
    /\ pc = "setup"
    /\ setup_i < Len(SetupCommands(config[1]))
    /\ \E status \in {0, 1} :
          /\ log' = Append(log, Event("os.system", "",
                                     SetupCommands(config[1])[setup_i + 1], status = 0))
          /\ setup_i' = IF status = 0 THEN setup_i + 1 ELSE Len(SetupCommands(config[1]))
    /\ UNCHANGED <<pc, config, cfg_kind, all_results, test_results, summary, success,
                   report, exit_status, crashed>>
    /\ UNCHANGED call_vars

\* os.system(cmd): the status is not looked at
RunSetupCommand ==
    /\ pc = "setup"
    /\ setup_i < Len(SetupCommands(config[1]))
    /\ \E status \in {0, 1} :
          log' = Append(log, Event("os.system", "", SetupCommands(config[1])[setup_i + 1],
                                   status = 0))
    /\ setup_i' = setup_i + 1
    /\ UNCHANGED <<pc, config, cfg_kind, all_results, test_results, summary, success,
                   report, exit_status, crashed>>
    /\ UNCHANGED call_vars

\* all_results = []
StartTests ==
    /\ pc = "setup"
    /\ setup_i = Len(SetupCommands(config[1]))
    /\ all_results' = <<>>
    /\ pc' = "tests"
    /\ UNCHANGED <<config, cfg_kind, setup_i, test_results, summary, success, report,
                   exit_status, crashed, log>>
    /\ UNCHANGED call_vars

\* One iteration of the loop over the tests mapping.
TestPipeline ==
    /\ pc = "tests"
    /\ Len(all_results) < Len(TestItems(config[1]))
    /\ LET item == TestItems(config[1])[Len(all_results) + 1]
           test_name == item[1]
           test_config == item[2]
       IN  \E proc \in SuiteProcs : \E fs \in FsChoices(test_config, proc) :
              LET t == test_pipeline(test_name, test_config, proc, fs)
              IN  /\ log' = log \o t.events
                  /\ IF t.raised
                     THEN /\ Crash
                          /\ UNCHANGED all_results
                     ELSE /\ all_results' = Append(all_results, t.test_result)
                          /\ UNCHANGED <<pc, crashed, exit_status>>
    /\ UNCHANGED <<config, cfg_kind, setup_i, test_results, summary, success, report>>
    /\ UNCHANGED call_vars

\* Variant: a suite without results does not pass.
SummarizeNonEmpty ==
    /\ pc = "tests"
    /\ Len(all_results) = Len(TestItems(config[1]))
    /\ LET passed == Passed(all_results)
           total == Len(all_results)
       IN  /\ summary' = <<[total |-> total, passed |-> passed, failed |-> total - passed]>>
           /\ success' = <<passed = total /\ total > 0>>
    /\ pc' = "report"
    /\ UNCHANGED <<config, cfg_kind, setup_i, all_results, test_results, report,
                   exit_status, crashed, log>>
    /\ UNCHANGED call_vars

\* Generate summary; return passed == total
Summarize ==
    /\ pc = "tests"
    /\ Len(all_results) = Len(TestItems(config[1]))
    /\ LET passed == Passed(all_results)
           total == Len(all_results)
       IN  /\ summary' = <<[total |-> total, passed |-> passed, failed |-> total - passed]>>
           /\ success' = <<passed = total>>
    /\ pc' = "report"
    /\ UNCHANGED <<config, cfg_kind, setup_i, all_results, test_results, report,
                   exit_status, crashed, log>>
    /\ UNCHANGED call_vars

\* validator.generate_report()
GenerateReport ==
    /\ pc = "report"
    /\ report' = <<[cli_path |-> "./cli/dist/index.js",
                    results |-> test_results,
                    summary |-> [total |-> Len(test_results),
                                 passed |-> Passed(test_results),
                                 failed |-> NotPassed(test_results)]]>>
    /\ pc' = "exit"
    /\ UNCHANGED <<config, cfg_kind, setup_i, all_results, test_results, summary,
                   success, exit_status, crashed, log>>
    /\ UNCHANGED call_vars

\* sys.exit(0 if success else 1)
Exit ==
    /\ pc = "exit"
    /\ exit_status' = <<ExitCode(success[1])>>
    /\ pc' = "done"
    /\ UNCHANGED <<config, cfg_kind, setup_i, all_results, test_results, summary,
                   success, report, crashed, log>>
    /\ UNCHANGED call_vars

Next ==
    \/ ConfigNotFound
    \/ ConfigUnparsable
    \/ ConfigNotMapping
    \/ ConfigLoaded
    \/ RunSetupCommand
    \/ StartTests
    \/ TestPipeline
    \/ Summarize
    \/ GenerateReport
    \/ Exit

Spec == Init /\ [][Next]_vars

-----------------------------------------------------------------------------
(* Properties of a suite run *)

\* The declared tests mapping and setup list, read off the loaded document.
Declared == IF config # <<>> /\ "tests" \in DOMAIN config[1] THEN config[1].tests ELSE <<>>
DeclaredSetup == IF config # <<>> /\ "setup" \in DOMAIN config[1] THEN config[1].setup ELSE <<>>

LogOf(ops) == SelectSeq(log, LAMBDA e : e.op \in ops)
CaseOps == {"run_pipeline", "validate_outputs", "validate_json_output"}
Validators == {"validate_outputs", "validate_json_output"}

\* Position of a case name in the declared mapping (0 when not declared).
DeclaredIndex(name) ==
    IF \E i \in DOMAIN Declared : Declared[i][1] = name
    THEN CHOOSE i \in DOMAIN Declared : Declared[i][1] = name
    ELSE 0

\* Number of tool invocations that succeeded, counted from the history.
RunsOk == Len(SelectSeq(log, LAMBDA e : e.op = "run_pipeline" /\ e.ok))

RECURSIVE CountOk(_)
CountOk(results) ==
    IF results = <<>> THEN 0
    ELSE (IF Head(results).execution.success THEN 1 ELSE 0) + CountOk(Tail(results))

\* C1: after main() ran a loaded suite of n cases, the written report holds
\* all n case results in execution order, and its summary has total = n,
\* passed = number of cases whose execution succeeded, failed = n - passed.
C1_ReportHoldsTheRun ==
    (cfg_kind = "loaded" /\ report # <<>>) =>
        /\ report[1].results = all_results
        /\ Len(report[1].results) = Len(Declared)
        /\ report[1].summary = [total |-> Len(Declared),
                                passed |-> RunsOk,
                                failed |-> Len(Declared) - RunsOk]

\* C2: for a loaded configuration the process exits with status 0 if and
\* only if every declared case's tool execution succeeded, and with status
\* 1 otherwise.
EveryCaseSucceeded ==
    \A i \in DOMAIN Declared :
        \E k \in DOMAIN log : /\ log[k].op = "run_pipeline"
                              /\ log[k].case = Declared[i][1]
                              /\ log[k].ok

C2_ExitZeroIffAllPassed ==
    (cfg_kind = "loaded" /\ pc = "done") =>
        /\ exit_status[1] \in {0, 1}
        /\ exit_status[1] = 0 <=> EveryCaseSucceeded

\* C3: no per-case problem aborts the suite: a run of a loaded suite ends
\* with exactly one result per declared case, every problem being data in
\* that case's result.
C3_OneResultPerCase ==
    (cfg_kind = "loaded" /\ pc = "done") =>
        /\ ~crashed
        /\ Len(all_results) = Len(Declared)
        /\ \A i \in DOMAIN all_results : all_results[i].name = Declared[i][1]

\* C4: a case result carries an artifact check iff the execution succeeded
\* and the case declares expected_outputs; it carries JSON checks, exactly
\* one per declared path, iff the execution succeeded and the case declares
\* json_validations; after a failed execution no validator is invoked; a
\* case declaring no expectations yields only name, pipeline and execution.
C4_ValidationGatedOnExecution ==
    /\ \A i \in DOMAIN all_results :
          LET r == all_results[i]
              cfg == Declared[i][2]
          IN  /\ "output_validation" \in DOMAIN r
                    <=> (r.execution.success /\ "expected_outputs" \in DOMAIN cfg)
              /\ "json_validations" \in DOMAIN r
                    <=> (r.execution.success /\ "json_validations" \in DOMAIN cfg)
              /\ "json_validations" \in DOMAIN r =>
                    [k \in DOMAIN r.json_validations |-> r.json_validations[k][1]]
                        = [k \in DOMAIN cfg.json_validations |-> cfg.json_validations[k][1]]
              /\ ("expected_outputs" \notin DOMAIN cfg /\ "json_validations" \notin DOMAIN cfg)
                    => DOMAIN r = {"name", "pipeline", "execution"}
    /\ \A k \in DOMAIN log :
          log[k].op \in Validators =>
              /\ \E j \in 1..(k - 1) : /\ log[j].op = "run_pipeline"
                                       /\ log[j].case = log[k].case
                                       /\ log[j].ok
              /\ LET cfg == Declared[DeclaredIndex(log[k].case)][2]
                 IN  IF log[k].op = "validate_outputs"
                     THEN "expected_outputs" \in DOMAIN cfg
                     ELSE "json_validations" \in DOMAIN cfg

C4_Witness ==
    \E i, j \in DOMAIN all_results :
        /\ all_results[i].execution.success
        /\ "output_validation" \in DOMAIN all_results[i]
        /\ "json_validations" \in DOMAIN all_results[i]
        /\ Len(all_results[i].json_validations) = 1
        /\ ~all_results[j].execution.success
        /\ "json_validations" \in DOMAIN Declared[j][2]
        /\ Len(Declared[j][2].json_validations) = 2

\* C6: cases are evaluated one at a time in the insertion order of the
\* tests mapping: every call made for a case precedes every call made for
\* the next one, the tool invocation opens each case, and the results list
\* the cases in declared order.
C6_SequentialInDeclaredOrder ==
    LET calls == LogOf(CaseOps)
    IN  /\ \A i \in DOMAIN all_results : all_results[i].name = Declared[i][1]
        /\ \A k \in DOMAIN calls : DeclaredIndex(calls[k].case) > 0
        /\ \A k, l \in DOMAIN calls :
              k < l => DeclaredIndex(calls[k].case) <= DeclaredIndex(calls[l].case)
        /\ \A k \in DOMAIN calls :
              calls[k].op = "run_pipeline"
                 <=> (k = 1 \/ calls[k - 1].case # calls[k].case)
        /\ LET runs == LogOf({"run_pipeline"})
           IN  \A k \in DOMAIN runs : runs[k].case = Declared[k][1]

C6_Witness ==
    /\ pc = "report"
    /\ Len(all_results) = 2
    /\ all_results[1].name = "b"
    /\ all_results[2].name = "a"
    /\ "json_validations" \in DOMAIN all_results[1]
    /\ "output_validation" \in DOMAIN all_results[2]

\* C7: the tally depends on execution outcomes only: total = number of
\* results, passed = number whose execution succeeded, failed = total -
\* passed, and a case whose tool exited 0 counts as passed even when its
\* artifact check or a JSON check failed.
C7_TallyFromExecutionOnly ==
    /\ summary # <<>> =>
          /\ summary[1].total = Len(all_results)
          /\ summary[1].passed = CountOk(all_results)
          /\ summary[1].failed = summary[1].total - summary[1].passed
    /\ report # <<>> =>
          /\ report[1].summary.total = Len(report[1].results)
          /\ report[1].summary.passed = CountOk(report[1].results)
          /\ report[1].summary.failed
                = report[1].summary.total - report[1].summary.passed

C7_Witness ==
    /\ summary # <<>>
    /\ summary[1].passed = 2
    /\ "output_validation" \in DOMAIN all_results[1]
    /\ ~all_results[1].output_validation.success
    /\ "json_validations" \in DOMAIN all_results[2]
    /\ \E k \in DOMAIN all_results[2].json_validations :
          ~all_results[2].json_validations[k][2].success

\* C8: a missing or unparsable configuration document aborts the run
\* before any setup command or test case is executed, and the process ends
\* with a non-zero exit status.
C8_ConfigFailureAborts ==
    cfg_kind \in {"missing", "unparsable"} =>
        /\ log = <<>>
        /\ all_results = <<>>
        /\ pc = "done" => exit_status[1] # 0

C8_Witness ==
    /\ cfg_kind = "missing"
    /\ pc = "done"
    /\ exit_status = <<1>>

\* C9: all setup commands are executed, each once and in declared order,
\* before the first tool invocation; a setup command that exits non-zero
\* aborts neither the remaining setup commands nor the suite, and does not
\* change the pass/fail tally.
C9_SetupRunsFirstAndNeverAborts ==
    LET setups == LogOf({"os.system"})
    IN  /\ (cfg_kind = "loaded" /\ pc # "setup") =>
              [k \in DOMAIN setups |-> setups[k].arg] = DeclaredSetup
        /\ \A k, l \in DOMAIN log :
              (log[k].op \in CaseOps /\ log[l].op = "os.system") => l < k
        /\ summary # <<>> =>
              /\ summary[1].total = Len(Declared)
              /\ summary[1].passed = RunsOk

C9_Witness ==
    /\ summary # <<>>
    /\ Len(DeclaredSetup) = 2
    /\ ~log[1].ok
    /\ log[1].op = "os.system"
    /\ log[2].op = "os.system"
    /\ summary[1].passed = 2

-----------------------------------------------------------------------------
(* run_pipeline called on its own, over every outcome of subprocess.run *)

ReturnCodes == {-9, -1, 0, 1, 2}

RunProcs ==
    {Exited(rc, out, err, t) : rc \in ReturnCodes, out \in {"", "done"},
                               err \in {"", "warning"}, t \in 0..MaxElapsed}
    \cup {TimedOut(out, err) : out \in {"", "partial"}, err \in {"", "warning"}}
    \cup {LaunchError(msg, t) :
            msg \in {"[Errno 2] No such file or directory: 'node'",
                     "[Errno 13] Permission denied: 'out'"},
            t \in 0..MaxElapsed}

SuiteIdle ==
    /\ config = <<>>
    /\ cfg_kind = "none"
    /\ setup_i = 0
    /\ all_results = <<>>
    /\ test_results = <<>>
    /\ summary = <<>>
    /\ success = <<>>
    /\ report = <<>>
    /\ exit_status = <<>>
    /\ crashed = FALSE
    /\ log = <<>>

InitRunPipeline ==
    /\ pc = "run_pipeline"
    /\ call \in {<<proc>> : proc \in RunProcs}
    /\ ret = <<>>
    /\ SuiteIdle

CallRunPipeline ==
    /\ pc = "run_pipeline"
    /\ ret' = <<run_pipeline(call[1])>>
    /\ pc' = "returned"
    /\ UNCHANGED <<call, suite_vars>>

SpecRunPipeline == InitRunPipeline /\ [][CallRunPipeline]_vars

\* C5: run_pipeline classifies every invocation into exactly one of three
\* outcomes.  The child exited: success = (exit code = 0), exit_code is the
\* real status, stdout/stderr are the captured streams.  The timeout
\* elapsed: success = FALSE, exit_code = -1, stderr is the fixed timeout
\* message, duration is the timeout value.  The launch failed: success =
\* FALSE, exit_code = -1, stderr is the error description.  So success
\* holds iff the child exited with status 0 within the timeout.
C5_ThreeOutcomes ==
    (pc = "returned" /\ ret # <<>>) =>
        LET proc == call[1]
            r == ret[1]
        IN  /\ proc.kind = "exited" =>
                  /\ r.success = (proc.returncode = 0)
                  /\ r.exit_code = proc.returncode
                  /\ r.stdout = proc.stdout
                  /\ r.stderr = proc.stderr
                  /\ r.duration = proc.elapsed
            /\ proc.kind = "timeout" =>
                  /\ r.success = FALSE
                  /\ r.exit_code = -1
                  /\ r.stderr = "Pipeline execution timed out after 60 seconds"
                  /\ r.duration = 60
            /\ proc.kind = "oserror" =>
                  /\ r.success = FALSE
                  /\ r.exit_code = -1
                  /\ r.stderr = proc.message
                  /\ r.duration = proc.elapsed
            /\ r.success <=> (proc.kind = "exited" /\ proc.returncode = 0)

C5_Witness ==
    /\ pc = "returned"
    /\ call[1].kind = "timeout"
    /\ call[1].stdout = "partial"
    /\ ret[1].exit_code = -1
    /\ ~ret[1].success

-----------------------------------------------------------------------------
(* validate_outputs called on its own, over lists and filesystem states *)

OutputNames == {"r.json", "s.json"}
Dirs == {".", "out"}

RECURSIVE SeqsUpTo(_, _)
SeqsUpTo(S, n) ==
    IF n = 0 THEN {<<>>}
    ELSE LET shorter == SeqsUpTo(S, n - 1)
         IN  shorter \cup {Append(q, x) : q \in shorter, x \in S}

OutputsInputs ==
    {<<expected, dir, fs>> :
        expected \in SeqsUpTo(OutputNames, MaxOutputs),
        dir \in Dirs,
        fs \in [Dirs \X OutputNames -> {NoFile, DictFile(<<>>)}]}

InitValidateOutputs ==
    /\ pc = "validate_outputs"
    /\ call \in OutputsInputs
    /\ ret = <<>>
    /\ SuiteIdle

CallValidateOutputs ==
    /\ pc = "validate_outputs"
    /\ ret' = <<validate_outputs(call[1], call[2], call[3])>>
    /\ pc' = "returned"
    /\ UNCHANGED <<call, suite_vars>>

SpecValidateOutputs == InitValidateOutputs /\ [][CallValidateOutputs]_vars

\* C10: validate_outputs partitions the input list by existence relative to
\* working_dir: files_created is the subsequence of existing paths and
\* files_missing the subsequence of absent paths, each in input order,
\* created_count + missing_count = total_expected, and success holds iff
\* files_missing is empty, so an empty list succeeds with both lists empty.
C10_PartitionByExistence ==
    (pc = "returned" /\ ret # <<>>) =>
        LET expected == call[1]
            dir == call[2]
            fs == call[3]
            r == ret[1]
            there(p) == fs[<<dir, p>>].kind # "absent"
        IN  /\ r.files_created = SelectSeq(expected, there)
            /\ r.files_missing = SelectSeq(expected, LAMBDA p : ~there(p))
            /\ r.total_expected = Len(expected)
            /\ r.created_count = Len(r.files_created)
            /\ r.missing_count = Len(r.files_missing)
            /\ r.created_count + r.missing_count = r.total_expected
            /\ r.success <=> (r.files_missing = <<>>)
            /\ expected = <<>> =>
                  (r.success /\ r.files_created = <<>> /\ r.files_missing = <<>>)

C10_Witness ==
    /\ pc = "returned"
    /\ call[1] = <<"r.json", "s.json">>
    /\ call[2] = "out"
    /\ call[3][<<".", "r.json">>].kind # "absent"
    /\ call[3][<<".", "s.json">>].kind = "absent"
    /\ ret[1].files_created = <<"s.json">>
    /\ ret[1].files_missing = <<"r.json">>
    /\ ~ret[1].success

-----------------------------------------------------------------------------
(* validate_json_output called on its own, over files and field lists *)

FieldNames == {"a", "b", "c"}

\* What the file at the path may hold: nothing, text that is no JSON, or
\* JSON of each top-level type.  A dict's keys are distinct.
JsonFiles ==
    {NoFile, Malformed, IntFile, NoneFile, BoolFile, FloatFile}
    \cup {DictFile(ks) : ks \in {<<>>, <<"a">>, <<"b">>, <<"a", "b">>, <<"b", "a">>,
                                 <<"c", "a">>, <<"a", "b", "c">>}}
    \cup {ListFile(items) : items \in {<<>>, <<"a">>, <<"b", "a">>}}
    \cup {StrFile(chars) : chars \in {<<>>, <<"a">>, <<"x", "b">>}}

JsonInputs ==
    {<<"r.json", required_fields, [fp \in Dirs \X {"r.json"} |->
                                      IF fp[1] = "." THEN here ELSE there]>> :
        required_fields \in SeqsUpTo(FieldNames, MaxFields),
        here \in JsonFiles,
        there \in {NoFile, DictFile(<<"a", "b", "c">>)}}

InitValidateJson ==
    /\ pc = "validate_json_output"
    /\ call \in JsonInputs
    /\ ret = <<>>
    /\ SuiteIdle

CallValidateJson ==
    /\ pc = "validate_json_output"
    /\ ret' = <<validate_json_output(call[1], call[2], call[3])>>
    /\ pc' = "returned"
    /\ UNCHANGED <<call, suite_vars>>

SpecValidateJson == InitValidateJson /\ [][CallValidateJson]_vars

\* The file the call looks at: call[1] relative to the current directory.
JsonFileRead == call[3][<<".", call[1]>>]

\* C11: for an existing JSON artifact that parses to a value that is not a
\* mapping (array, string, number, boolean, null) the call returns a result
\* with an empty present-key list in which every required field counts as
\* missing, so success is false whenever required_fields is non-empty.
C11_NonMappingMissesEveryField ==
    (pc = "returned" /\ JsonFileRead.kind \notin {"absent", "malformed", "dict"}) =>
        /\ "raised" \notin DOMAIN ret[1]
        /\ ret[1].data_keys = <<>>
        /\ ret[1].missing_fields = call[2]
        /\ call[2] # <<>> => ~ret[1].success

\* C12: for an existing JSON artifact that parses to a mapping,
\* missing_fields is the subsequence of required_fields, in that order,
\* that are not top-level keys, data_keys is the mapping's keys, and
\* success holds iff missing_fields is empty; an empty required_fields
\* list succeeds once the file parses.
C12_MappingMissingFields ==
    (pc = "returned" /\ JsonFileRead.kind = "dict") =>
        LET required_fields == call[2]
            keys == {JsonFileRead.keys[k] : k \in DOMAIN JsonFileRead.keys}
            r == ret[1]
        IN  /\ "raised" \notin DOMAIN r
            /\ r.missing_fields = SelectSeq(required_fields, LAMBDA f : f \notin keys)
            /\ {r.data_keys[k] : k \in DOMAIN r.data_keys} = keys
            /\ Len(r.data_keys) = Cardinality(keys)
            /\ r.success <=> (r.missing_fields = <<>>)
            /\ required_fields = <<>> => r.success

C12_Witness ==
    /\ pc = "returned"
    /\ JsonFileRead = DictFile(<<"a", "b">>)
    /\ call[2] = <<"a", "b", "c">>
    /\ ret[1].missing_fields = <<"c">>
    /\ ~ret[1].success

-----------------------------------------------------------------------------
(* Timeouts of run_pipeline *)

\* C15: when an invocation times out no partial output is discarded: what
\* the child wrote to stdout before it was terminated is retained in the
\* execution outcome, and the cause is recorded as a timeout.
C15_TimeoutKeepsPartialOutput ==
    (pc = "returned" /\ call[1].kind = "timeout") =>
        /\ ret[1].stdout = call[1].stdout
        /\ ret[1].stderr = "Pipeline execution timed out after 60 seconds"

\* A child process: how long it runs when left alone, what it exits with,
\* what it has written when it ends and what it has written by any earlier
\* moment at which it is killed.
Children ==
    {[runtime |-> t, returncode |-> rc, stdout |-> out, partial |-> "partial"] :
        t \in {0, 1, 5, 59, 61, 90}, rc \in {0, 1}, out \in {"", "done"}}

\* subprocess.run(cmd, ..., timeout=timeout): TimeoutExpired when the child
\* outlives the timeout, else the completed process.
SubprocessRun(child, timeout) ==
    IF child.runtime > timeout
    THEN TimedOut(child.partial, "")
    ELSE Exited(child.returncode, child.stdout, "", child.runtime)

\* The deadlines a caller may want for one invocation.
WantedTimeouts == {1, 5, 60, 90}

InitRunWithDeadline ==
    /\ pc = "run_pipeline"
    /\ call \in {<<child, t>> : child \in Children, t \in WantedTimeouts}
    /\ ret = <<>>
    /\ SuiteIdle

\* run_pipeline(pipeline_path, working_dir) takes no timeout: whatever
\* deadline call[2] the caller wants, subprocess.run is given timeout=60.
CallRunWithDeadline ==
    /\ pc = "run_pipeline"
    /\ ret' = <<run_pipeline(SubprocessRun(call[1], TimeoutSeconds))>>
    /\ pc' = "returned"
    /\ UNCHANGED <<call, suite_vars>>

SpecRunWithDeadline == InitRunWithDeadline /\ [][CallRunWithDeadline]_vars

\* C16: the timeout defaults to 60 seconds and can be overridden by the
\* caller: for any caller-chosen timeout t, an invocation that outlives t
\* yields success = FALSE, exit_code = -1 and a reported duration of t.
C16_CallerChosenTimeout ==
    (pc = "returned" /\ call[1].runtime > call[2]) =>
        /\ ~ret[1].success
        /\ ret[1].exit_code = -1
        /\ ret[1].duration = call[2]

-----------------------------------------------------------------------------
(* Further properties of a suite run *)

\* C14: every run that gets past configuration loading has written the
\* detailed report by the time the process has ended, whatever the cases
\* and their validations did.
C14_ReportWrittenBeforeExit ==
    (cfg_kind = "loaded" /\ pc = "done") => report # <<>>

\* C18: a loaded configuration that declares no test cases (tests absent
\* or an empty mapping) is a vacuous success: the setup commands still run,
\* no tool is invoked, total = passed = 0, run_test_suite returns True and
\* the process exits with status 0.
C18_EmptySuitePasses ==
    (cfg_kind = "loaded" /\ Declared = <<>>) =>
        /\ LogOf(CaseOps) = <<>>
        /\ all_results = <<>>
        /\ summary # <<>> =>
              /\ summary[1].total = 0
              /\ summary[1].passed = 0
              /\ success = <<TRUE>>
        /\ pc = "done" =>
              /\ ~crashed
              /\ exit_status = <<0>>
              /\ LET setups == LogOf({"os.system"})
                 IN  [k \in DOMAIN setups |-> setups[k].arg] = DeclaredSetup

C18_Witness ==
    /\ cfg_kind = "loaded"
    /\ pc = "done"
    /\ "tests" \notin DOMAIN config[1]
    /\ Len(DeclaredSetup) = 2
    /\ Len(log) = 2
    /\ exit_status = <<0>>

-----------------------------------------------------------------------------
(* test_pipeline called on its own, over cases, outcomes and filesystems *)

CaseInputs ==
    {<<"a", cfg, proc, fs>> :
        cfg \in CaseSpecs("a"),
        proc \in SuiteProcs,
        fs \in [Dirs \X OutputNames -> SuiteFiles]}

InitTestPipeline ==
    /\ pc = "test_pipeline"
    /\ call \in CaseInputs
    /\ ret = <<>>
    /\ SuiteIdle

CallTestPipeline ==
    /\ pc = "test_pipeline"
    /\ ret' = <<test_pipeline(call[1], call[2], call[3], call[4])>>
    /\ pc' = "returned"
    /\ UNCHANGED <<call, suite_vars>>

SpecTestPipeline == InitTestPipeline /\ [][CallTestPipeline]_vars

\* C17: the artifact check resolves a path against the case's working_dir,
\* the JSON check resolves the same path against the harness's current
\* directory: what the JSON check reports for p is decided by the file at
\* p in the current directory alone, whatever working_dir is, so with a
\* working_dir other than "." p can be reported created by the artifact
\* check and not found by the JSON check.
C17_JsonCheckIgnoresWorkingDir ==
    (pc = "returned" /\ ~ret[1].raised) =>
        LET cfg == call[2]
            fs == call[4]
            dir == IF "working_dir" \in DOMAIN cfg THEN cfg.working_dir ELSE "."
            r == ret[1].test_result
        IN  /\ "json_validations" \in DOMAIN r =>
                  \A k \in DOMAIN r.json_validations :
                      LET p == r.json_validations[k][1]
                          v == r.json_validations[k][2]
                          file == fs[<<".", p>>]
                      IN  /\ file.kind = "absent" <=>
                                ("error" \in DOMAIN v /\ v.error[1] = "JSON file not found: ")
                          /\ file.kind = "malformed" <=>
                                ("error" \in DOMAIN v /\ v.error[1] = "Invalid JSON: ")
                          /\ file.kind = "dict" =>
                                ("error" \notin DOMAIN v /\ v.data_keys = file.keys)
            /\ "output_validation" \in DOMAIN r =>
                  \A k \in DOMAIN cfg.expected_outputs :
                      LET p == cfg.expected_outputs[k]
                      IN  fs[<<dir, p>>].kind # "absent"
                             <=> \E j \in DOMAIN r.output_validation.files_created :
                                    r.output_validation.files_created[j] = p

C17_Witness ==
    /\ pc = "returned"
    /\ ~ret[1].raised
    /\ "working_dir" \in DOMAIN call[2]
    /\ call[2].working_dir = "out"
    /\ "output_validation" \in DOMAIN ret[1].test_result
    /\ "json_validations" \in DOMAIN ret[1].test_result
    /\ ret[1].test_result.output_validation.files_created = <<"r.json">>
    /\ ret[1].test_result.json_validations[1]
          = <<"r.json", [success |-> FALSE, error |-> <<"JSON file not found: ", "r.json">>]>>

====
